---- MODULE Spec2Model ----
(***************************************************************************)
(* Fixed-length windowing and window-index construction of the bird audio  *)
(* dataset loader (src/src/data/dataset_loader.py).                        *)
(*                                                                         *)
(* Times (window_seconds, hop_seconds, duration_s) are held as integer     *)
(* multiples t of 1/TimeScale second, standing for the double nearest to   *)
(* t / TimeScale.  The products seconds * sample_rate are computed as      *)
(* double arithmetic computes them, so that Python's int() and round() see *)
(* the rounded product and not the rational t * sample_rate / TimeScale.   *)
(* Waveforms are sequences of samples; the synthetic waveform of length L  *)
(* is the ramp 1, 2, ..., L, so that a sample's value identifies its       *)
(* position and a padded zero is never a signal sample.                    *)
(***************************************************************************)
EXTENDS Integers, Sequences, FiniteSets, TLC

VARIABLES
    sample_rate,      \* cfg["audio"]["sample_rate"], samples per second
    window_seconds,   \* cfg["audio"]["window_seconds"], in 1/TimeScale s
    hop_seconds,      \* cfg["audio"]["hop_seconds"], in 1/TimeScale s
    use_windowing,    \* BirdAudioDataset.use_windowing
    subset,           \* BirdAudioDataset.subset: the rows of the split
    species_list,     \* BirdAudioDataset.species_list
    species_to_idx,   \* BirdAudioDataset.species_to_idx
    index,            \* BirdAudioDataset.index: <<clip_idx, window_idx>> pairs
    pc,               \* position of the running call
    duration_s,       \* test_windowing: duration of the synthetic clip
    item,             \* __getitem__: the position idx being materialized
    waveform,         \* create_fixed_windows: the waveform argument
    window_samples,   \* create_fixed_windows: local window_samples
    hop_samples,      \* create_fixed_windows: local hop_samples
    start,            \* create_fixed_windows: local start
    windows,          \* create_fixed_windows: local windows / returned list
    sample,           \* the dict returned by the last __getitem__
    raised,           \* the exception that ended the running call, or "none"
    printed,          \* the lines printed to standard output
    data,             \* prepare_split: the list it returns
    batch,            \* DataLoader: the samples fetched for the next batch
    collated,         \* the dict returned by the last bucket_collate_fn
    served,           \* DataLoader: positions its iterator has drawn
    species_recordings, \* create_splits: species -> list of recording ids
    train_ids,        \* create_splits: train_ids
    val_ids,          \* create_splits: val_ids
    test_ids,         \* create_splits: test_ids
    split_pos,        \* create_splits: species folders already split
    shuffle_i,        \* random.shuffle: local i of the swap to come, 0 if none
    hop_length,       \* cfg["audio"]["hop_length"], samples per mel frame
    mel,              \* chop_windows: the time frames of the feature map
    win_f,            \* chop_windows: local win_f
    hop_f,            \* chop_windows: local hop_f
    chunks            \* chop_windows: local chunks / the returned stack

vars == <<sample_rate, window_seconds, hop_seconds, use_windowing, subset,
          species_list, species_to_idx, index, pc, duration_s, item, waveform,
          window_samples, hop_samples, start, windows, sample, raised,
          printed, data, batch, collated, served, species_recordings, train_ids,
          val_ids, test_ids, split_pos, shuffle_i, hop_length, mel, win_f,
          hop_f, chunks>>

cfgVars == <<sample_rate, window_seconds, hop_seconds, use_windowing>>
dataVars == <<subset, species_list, species_to_idx, index>>
winVars == <<waveform, window_samples, hop_samples, start, windows>>
outVars == <<printed, data>>
batchVars == <<batch, collated, served>>
splitVars ==
    <<species_recordings, train_ids, val_ids, test_ids, split_pos, shuffle_i>>
melVars == <<hop_length, mel, win_f, hop_f, chunks>>

----------------------------------------------------------------------------
(* Bounds of the model.                                                    *)

\* Times are multiples of 1/TimeScale second.
TimeScale == 10
\* Largest window_seconds / hop_seconds, in 1/TimeScale s.
MaxSec == 3
\* Largest clip duration, in 1/TimeScale s.
MaxDur == 8
\* Largest number of rows of a split's subset.
MaxRows == 2
\* Largest duration of a catalogued clip, in 1/TimeScale s.
MaxClipDur == 3
\* largest number of recordings in one species folder
MaxRecordings == 7

SampleRates == {5, 10}
\* The windower's seconds range includes a non-positive value on each side
\* of zero: the code accepts any number the configuration file holds.
WinSeconds == (0 - 1)..MaxSec
Durations == 0..MaxDur
\* The sliding loop appends without limit when hop_samples <= 0; the model
\* stops following it once the list is longer than any terminating run's.
MaxWindows == MaxDur + 2

----------------------------------------------------------------------------
(* Python arithmetic and slicing.                                          *)

\* int(x) of the rational num/den (den > 0): truncation toward zero.
PyInt(num, den) ==
    IF num >= 0 THEN num \div den ELSE 0 - ((0 - num) \div den)

\* round(num / den) for den > 0: the nearest integer, ties to the even one.
PyRound(num, den) ==
    LET q == num \div den
        r == num % den
    IN  IF 2 * r < den THEN q
        ELSE IF 2 * r > den THEN q + 1
        ELSE IF q % 2 = 0 THEN q ELSE q + 1

\* the smallest power of two that is at least t
RECURSIVE Pow2From(_, _)
Pow2From(p, t) == IF p >= t THEN p ELSE Pow2From(2 * p, t)
Pow2AtLeast(t) == Pow2From(1, t)

\* the least element of a finite non-empty set of integers
MinOf(S) == CHOOSE x \in S : \A y \in S : x <= y

\* x * 2^e, written over the common factor 2^m (m <= e) of a comparison
Scaled(x, e, m) == x * 2^(e - m)

\* floor(log2(num / den)) for num, den > 0
RECURSIVE Log2Up(_, _, _)
Log2Up(num, den, e) ==
    IF num >= 2 * den * 2^e THEN Log2Up(num, den, e + 1) ELSE e
RECURSIVE Log2Down(_, _, _)
Log2Down(num, den, k) ==
    IF num * 2^k >= den THEN k ELSE Log2Down(num, den, k + 1)
FloorLog2(num, den) ==
    IF num >= den THEN Log2Up(num, den, 0) ELSE 0 - Log2Down(num, den, 1)

\* 2^s modulo d
RECURSIVE Pow2Mod(_, _)
Pow2Mod(s, d) == IF s = 0 THEN 1 % d ELSE (2 * Pow2Mod(s - 1, d)) % d

\* The double a number written num/den (num, den > 0) is read as: the
\* multiple of 2^(E - 52), E = FloorLog2(num, den), nearest to num/den.  It
\* is num/den + (UlpError(num, den) / den) * 2^(E - 52): with r the remainder
\* of num * 2^(52 - E) by den, the double lies r/den of a spacing below
\* num/den when r is under half of den, and (den - r)/den above otherwise
\* (r is never half of den for a quotient below 2^52 / den).
UlpError(num, den) ==
    LET r == ((num % den) * Pow2Mod(52 - FloorLog2(num, den), den)) % den
    IN  IF 2 * r < den THEN 0 - r ELSE den - r

\* int(x * k) in double arithmetic for x the double of num/den and an
\* integer k, num, k >= 0.  Where num * k / den is not a whole number the
\* product truncates to the exact quotient.  Where it is a whole number q, the
\* product of the double lies off q by its error times k and is rounded to
\* a double: to the one just below q (int() then gives q - 1) when the double
\* of num/den lies below num/den and the deficit exceeds half the spacing of
\* the doubles below q, which is 2^-54 times the smallest power of two that
\* is at least q; to q otherwise.
IntOfProductMagnitude(num, den, k) ==
    LET q == (num * k) \div den
    IN  IF (num * k) % den # 0 \/ q = 0 THEN q
        ELSE LET e == UlpError(num, den)
                 E == FloorLog2(num, den)
                 m == MinOf({E, 0 - 2})
             IN  IF e < 0 /\ Scaled((0 - e) * k, E, m)
                               > Scaled(den * Pow2AtLeast(q), 0 - 2, m)
                 THEN q - 1
                 ELSE q

\* int(x * k) in double arithmetic for x the double of num/den (den > 0):
\* the product and the truncation are symmetric in the sign
PyIntOfProduct(num, den, k) ==
    LET mag == IntOfProductMagnitude(IF num < 0 THEN 0 - num ELSE num, den,
                                     IF k < 0 THEN 0 - k ELSE k)
    IN  IF (num < 0) # (k < 0) THEN 0 - mag ELSE mag

\* a // b for b # 0: floor of the quotient.
PyFloorDiv(a, b) ==
    IF b > 0
    THEN (IF a >= 0 THEN a \div b ELSE 0 - (((0 - a) + b - 1) \div b))
    ELSE (IF a <= 0 THEN (0 - a) \div (0 - b)
                    ELSE 0 - ((a + (0 - b) - 1) \div (0 - b)))

\* Normalisation of a slice bound against a sequence of length n.
PySliceBound(i, n) ==
    IF i < 0 THEN (IF i + n < 0 THEN 0 ELSE i + n)
    ELSE (IF i > n THEN n ELSE i)

\* s[lo:hi] (0-based, hi exclusive, negative bounds counted from the end).
PySlice(s, lo, hi) ==
    LET a == PySliceBound(lo, Len(s))
        b == PySliceBound(hi, Len(s))
    IN  IF a < b THEN [i \in 1..(b - a) |-> s[a + i]] ELSE <<>>

\* The synthetic waveform of n samples (ramp: sample i has value i).
SyntheticAudio(n) == [i \in 1..n |-> i]

----------------------------------------------------------------------------
(* create_fixed_windows, lines 42-83.                                      *)

\* int(window_seconds * sr), int(hop_seconds * sr), int(duration * sr)
\* in double arithmetic, seconds being the double of seconds / TimeScale
SamplesOf(seconds, sr) == PyIntOfProduct(seconds, TimeScale, sr)

\* faulty variant: the zeros are put in front of the waveform
ZeroPaddedLeft(w, n) ==
    [i \in 1..n |-> IF i > n - Len(w) THEN w[i - (n - Len(w))] ELSE 0]

\* padded = np.zeros(window_samples); padded[:audio_length] = waveform
ZeroPadded(w, n) ==
    [i \in 1..n |-> IF i <= Len(w) THEN w[i] ELSE 0]

\* faulty variant: the crop keeps the end of the waveform
CropBack(w, n) == PySlice(w, Len(w) - n, Len(w))

\* waveform[:window_samples]
CropFront(w, n) == PySlice(w, 0, n)

\* faulty variant: the slice runs to the end of the waveform
TiledWindowToEnd(w, s, n) == PySlice(w, s, Len(w))

\* waveform[start:start + window_samples]
TiledWindow(w, s, n) == PySlice(w, s, s + n)

\* faulty variant: the closing window is cut from the front of the clip
LastWindowFromFront(w, n) == PySlice(w, 0, n)

\* waveform[-window_samples:]
LastWindow(w, n) == PySlice(w, 0 - n, Len(w))

\* the guard of the closing "if" of the tiled case
TailCondition(s, len, ws) == s < len /\ Len(ws) > 0

\* the stride of the sliding loop: start += hop_samples
NextStart(s, hop) == s + hop

\* Entry: the locals and the two single-window cases.
WinEnter ==
    /\ pc = "call"
    /\ LET W == SamplesOf(window_seconds, sample_rate)
           H == SamplesOf(hop_seconds, sample_rate)
           L == Len(waveform)
       IN  /\ window_samples' = W
           /\ hop_samples' = H
           /\ start' = 0
           /\ IF L < W
              THEN windows' = <<ZeroPadded(waveform, W)>> /\ pc' = "return"
              ELSE IF L <= W + PyFloorDiv(H, 2)
                   THEN windows' = <<CropFront(waveform, W)>> /\ pc' = "return"
                   ELSE windows' = <<>> /\ pc' = "loop"
    /\ UNCHANGED <<outVars, batchVars, splitVars, melVars>>
    /\ UNCHANGED <<cfgVars, dataVars, duration_s, item, waveform, sample, raised>>

\* faulty variant: the loop strides by the window, not by the hop
WinLoopWindowStride ==
    /\ pc = "loop"
    /\ start + window_samples <= Len(waveform)
    /\ Len(windows) < MaxWindows
    /\ windows' = Append(windows, TiledWindow(waveform, start, window_samples))
    /\ start' = start + window_samples
    /\ UNCHANGED <<outVars, batchVars, splitVars, melVars>>
    /\ UNCHANGED <<cfgVars, dataVars, pc, duration_s, item, waveform,
                   window_samples, hop_samples, sample, raised>>

\* One iteration of "while start + window_samples <= audio_length".
WinLoop ==
    /\ pc = "loop"
    /\ start + window_samples <= Len(waveform)
    /\ Len(windows) < MaxWindows
    /\ windows' = Append(windows, TiledWindow(waveform, start, window_samples))
    /\ start' = NextStart(start, hop_samples)
    /\ UNCHANGED <<outVars, batchVars, splitVars, melVars>>
    /\ UNCHANGED <<cfgVars, dataVars, pc, duration_s, item, waveform,
                   window_samples, hop_samples, sample, raised>>

\* Loop exit: the closing "if" and the return.
WinTail ==
    /\ pc = "loop"
    /\ ~(start + window_samples <= Len(waveform))
    /\ windows' = IF TailCondition(start, Len(waveform), windows)
                  THEN Append(windows, LastWindow(waveform, window_samples))
                  ELSE windows
    /\ pc' = "return"
    /\ UNCHANGED <<outVars, batchVars, splitVars, melVars>>
    /\ UNCHANGED <<cfgVars, dataVars, duration_s, item, waveform,
                   window_samples, hop_samples, start, sample, raised>>

----------------------------------------------------------------------------
(* The window count estimate of BirdAudioDataset.__init__, lines 139-150.  *)

\* the estimate divides by hop_samples only in the tiled branch
EstimateRaises(duration, sr, wsec, hsec) ==
    LET W == SamplesOf(wsec, sr)
        H == SamplesOf(hsec, sr)
        A == SamplesOf(duration, sr)
    IN  ~(A < W) /\ ~(A <= W + PyFloorDiv(H, 2)) /\ H = 0

num_windows(duration, sr, wsec, hsec) ==
    LET W == SamplesOf(wsec, sr)
        H == SamplesOf(hsec, sr)
        A == SamplesOf(duration, sr)
    IN  IF A < W THEN 1
        ELSE IF A <= W + PyFloorDiv(H, 2) THEN 1
        ELSE 1 + PyFloorDiv(A - W + H - 1, H)

----------------------------------------------------------------------------
(* test_windowing: a synthetic clip of each duration through the windower. *)

NoSample == [waveform |-> <<>>, label |-> 0 - 1, clip_id |-> <<>>,
             species |-> 0, window_idx |-> 0 - 1]

\* the tiled windows of the sliding loop from start s on (hop > 0)
RECURSIVE TiledFrom(_, _, _, _)
TiledFrom(w, s, n, hop) ==
    IF s + n <= Len(w)
    THEN <<TiledWindow(w, s, n)>> \o TiledFrom(w, NextStart(s, hop), n, hop)
    ELSE <<>>

\* create_fixed_windows(waveform, sr, window_seconds, hop_seconds) as a
\* function of its arguments; defined where the sliding loop ends
\* (hop_samples > 0 or a clip that is not tiled).
create_fixed_windows(w, sr, wsec, hsec) ==
    LET n == SamplesOf(wsec, sr)
        hop == SamplesOf(hsec, sr)
    IN  IF Len(w) < n THEN <<ZeroPadded(w, n)>>
        ELSE IF Len(w) <= n + PyFloorDiv(hop, 2) THEN <<CropFront(w, n)>>
        ELSE LET tiled == TiledFrom(w, 0, n, hop)
                 s == Len(tiled) * hop
             IN  IF TailCondition(s, Len(w), tiled)
                 THEN Append(tiled, LastWindow(w, n))
                 ELSE tiled

\* no batch has been collated yet
NoBatch == [waveforms |-> <<>>, labels |-> <<>>, clip_ids |-> <<>>,
            species |-> <<>>, window_indices |-> <<>>]

InitWin ==
    /\ sample_rate \in SampleRates
    /\ window_seconds \in WinSeconds
    /\ hop_seconds \in WinSeconds
    /\ duration_s \in Durations
    /\ use_windowing = TRUE
    /\ subset = <<>>
    /\ species_list = <<>>
    /\ species_to_idx = <<>>
    /\ index = <<>>
    /\ item = 0
    /\ waveform = SyntheticAudio(SamplesOf(duration_s, sample_rate))
    /\ window_samples = 0
    /\ hop_samples = 0
    /\ start = 0
    /\ windows = <<>>
    /\ sample = NoSample
    /\ raised = "none"
    /\ printed = <<>>
    /\ data = <<>>
    /\ batch = <<>>
    /\ collated = NoBatch
    /\ served = {}
    /\ species_recordings = <<>>
    /\ train_ids = <<>>
    /\ val_ids = <<>>
    /\ test_ids = <<>>
    /\ split_pos = 0
    /\ shuffle_i = 0
    /\ hop_length = 1
    /\ mel = <<>>
    /\ win_f = 0
    /\ hop_f = 0
    /\ chunks = <<>>
    /\ pc = "call"

NextWin == WinEnter \/ WinLoop \/ WinTail

SpecWin == InitWin /\ [][NextWin]_vars

----------------------------------------------------------------------------
(* BirdAudioDataset, lines 104-186.                                        *)

\* Species codes; their order stands for the order of the code strings.
Species == {1, 2}
\* The dataset is opened with a configuration the file can hold: seconds
\* from zero up.
DataSeconds == 0..MaxSec
ClipDurations == 0..MaxClipDur

\* One row of the metadata subset.  exists: os.path.exists of its file.
\* A row whose file is missing is never decoded and its duration never read.
Rows ==
    [species_code : Species, exists : {TRUE}, duration_s : ClipDurations]
    \cup [species_code : Species, exists : {FALSE}, duration_s : {0}]

Subsets == UNION {[1..n -> Rows] : n \in 0..MaxRows}

\* row["clip_id"] of the row at 0-based position idx
ClipId(idx) == <<"XC", idx>>

RECURSIVE SortedSeq(_)
\* sorted(...) of a finite set of species codes
SortedSeq(S) ==
    IF S = {} THEN <<>>
    ELSE LET m == CHOOSE x \in S : \A y \in S : x <= y
         IN  <<m>> \o SortedSeq(S \ {m})

\* faulty variant: only the rows whose file exists give their species
SpeciesListPresentOnly(rows) ==
    SortedSeq({rows[i].species_code : i \in {j \in 1..Len(rows) : rows[j].exists}})

\* sorted(self.subset["species_code"].unique())
SpeciesList(rows) == SortedSeq({rows[i].species_code : i \in 1..Len(rows)})

\* {sp: i for i, sp in enumerate(self.species_list)}
SpeciesToIdx(lst) ==
    [sp \in {lst[i] : i \in 1..Len(lst)} |->
        (CHOOSE i \in 1..Len(lst) : lst[i] = sp) - 1]

\* faulty variant: a row whose file is missing is not skipped
RowEntriesNoSkip(idx, row, windowing, sr, wsec, hsec) ==
    IF windowing
    THEN LET n == num_windows(row.duration_s, sr, wsec, hsec)
         IN  [k \in 1..n |-> <<idx, k - 1>>]
    ELSE <<<<idx, 0>>>>

\* faulty variant: without windowing the entry repeats the clip position
RowEntriesOrdinalIsClip(idx, row, windowing, sr, wsec, hsec) ==
    IF ~row.exists THEN <<>>
    ELSE IF windowing
    THEN LET n == num_windows(row.duration_s, sr, wsec, hsec)
         IN  [k \in 1..n |-> <<idx, k - 1>>]
    ELSE <<<<idx, idx>>>>

\* faulty variant: the ordinals run from 1 to n
RowEntriesFromOne(idx, row, windowing, sr, wsec, hsec) ==
    IF ~row.exists THEN <<>>
    ELSE IF windowing
         THEN LET n == num_windows(row.duration_s, sr, wsec, hsec)
              IN  [k \in 1..n |-> <<idx, k>>]
         ELSE <<<<idx, 0>>>>

\* The body of the index loop for the row at 0-based position idx.
RowEntries(idx, row, windowing, sr, wsec, hsec) ==
    IF ~row.exists THEN <<>>
    ELSE IF windowing
         THEN LET n == num_windows(row.duration_s, sr, wsec, hsec)
              IN  [k \in 1..n |-> <<idx, k - 1>>]
         ELSE <<<<idx, 0>>>>

\* the loop body raises ZeroDivisionError at this row
RowRaises(row, windowing, sr, wsec, hsec) ==
    row.exists /\ windowing /\ EstimateRaises(row.duration_s, sr, wsec, hsec)

RECURSIVE IndexLoop(_, _, _, _, _, _)
\* for idx, row in self.subset.iterrows(): ... from 1-based row i on; the
\* loop ends at the first row whose estimate raises.
IndexLoop(rows, i, windowing, sr, wsec, hsec) ==
    IF i > Len(rows) \/ RowRaises(rows[i], windowing, sr, wsec, hsec)
    THEN <<>>
    ELSE RowEntries(i - 1, rows[i], windowing, sr, wsec, hsec)
         \o IndexLoop(rows, i + 1, windowing, sr, wsec, hsec)

\* load_audio(audio_path, sr=self.sample_rate): the decoded waveform of a
\* row's file holds int(duration_s * sample_rate) samples.
LoadedAudio(row, sr) == SyntheticAudio(SamplesOf(row.duration_s, sr))

\* load_audio(file_path, sr=32000): the default rate, on the model's scale
DefaultSampleRate == 10

\* prepare_split: the "Missing file" lines of the rows from position i on
RECURSIVE MissingLines(_, _)
MissingLines(rows, i) ==
    IF i > Len(rows) THEN <<>>
    ELSE (IF rows[i].exists THEN <<>> ELSE <<<<"Missing file", ClipId(i - 1)>>>>)
         \o MissingLines(rows, i + 1)

\* prepare_split: the entries of data for the rows from position i on
RECURSIVE LoadedData(_, _)
LoadedData(rows, i) ==
    IF i > Len(rows) THEN <<>>
    ELSE (IF rows[i].exists
          THEN <<[clip_id |-> ClipId(i - 1),
                  species |-> rows[i].species_code,
                  waveform |-> LoadedAudio(rows[i], DefaultSampleRate),
                  sr |-> DefaultSampleRate]>>
          ELSE <<>>)
         \o LoadedData(rows, i + 1)

\* prepare_split(cfg, split_name): loads the split without a dataset object
PrepareSplit ==
    /\ pc = "new"
    /\ printed' = printed \o MissingLines(subset, 1)
    /\ data' = LoadedData(subset, 1)
    /\ pc' = "prepared"
    /\ UNCHANGED <<batchVars, splitVars, melVars>>
    /\ UNCHANGED <<cfgVars, dataVars, duration_s, item, winVars, sample, raised>>

\* BirdAudioDataset.__init__
BuildIndex ==
    /\ pc = "new"
    /\ species_list' = SpeciesList(subset)
    /\ species_to_idx' = SpeciesToIdx(SpeciesList(subset))
    /\ index' = IndexLoop(subset, 1, use_windowing, sample_rate,
                          window_seconds, hop_seconds)
    /\ IF \E i \in 1..Len(subset) :
              RowRaises(subset[i], use_windowing, sample_rate,
                        window_seconds, hop_seconds)
       THEN pc' = "raised" /\ raised' = "ZeroDivisionError"
       ELSE pc' = "ready" /\ raised' = raised
    /\ UNCHANGED <<outVars, batchVars, splitVars, melVars>>
    /\ UNCHANGED <<cfgVars, subset, duration_s, item, winVars, sample>>

\* faulty variant: __getitem__ appends the clip's species to species_list
GetItemExtendsVocabulary ==
    /\ pc = "ready"
    /\ \E p \in 0..(Len(index) - 1) :
        LET clip_idx == index[p + 1][1]
            window_idx == index[p + 1][2]
            row == subset[clip_idx + 1]
            y == LoadedAudio(row, sample_rate)
        IN  /\ item' = p
            /\ species_list' = Append(species_list, row.species_code)
            /\ waveform' = y
            /\ IF use_windowing
               THEN /\ pc' = "call"
                    /\ sample' = NoSample
               ELSE /\ pc' = "ready"
                    /\ sample' = [waveform |-> y,
                                  label |-> species_to_idx[row.species_code],
                                  clip_id |-> ClipId(clip_idx),
                                  species |-> row.species_code,
                                  window_idx |-> window_idx]
    /\ UNCHANGED <<outVars, batchVars, splitVars, melVars>>
    /\ UNCHANGED <<cfgVars, subset, species_to_idx, index, duration_s,
                   window_samples, hop_samples,
                   start, windows, raised>>

\* __getitem__(idx) up to the call of create_fixed_windows; without
\* windowing the whole method.
GetItem ==
    /\ pc = "ready"
    /\ \E p \in 0..(Len(index) - 1) :
        LET clip_idx == index[p + 1][1]
            window_idx == index[p + 1][2]
            row == subset[clip_idx + 1]
            y == LoadedAudio(row, sample_rate)
        IN  /\ item' = p
            /\ waveform' = y
            /\ IF use_windowing
               THEN /\ pc' = "call"
                    /\ sample' = NoSample
               ELSE /\ pc' = "ready"
                    /\ sample' = [waveform |-> y,
                                  label |-> species_to_idx[row.species_code],
                                  clip_id |-> ClipId(clip_idx),
                                  species |-> row.species_code,
                                  window_idx |-> window_idx]
    /\ UNCHANGED <<outVars, batchVars, splitVars, melVars>>
    /\ UNCHANGED <<cfgVars, dataVars, duration_s, window_samples, hop_samples,
                   start, windows, raised>>

\* __getitem__ from the return of create_fixed_windows on.
GetItemReturn ==
    /\ pc = "return"
    /\ LET clip_idx == index[item + 1][1]
           window_idx == index[item + 1][2]
           row == subset[clip_idx + 1]
       IN  IF window_idx < Len(windows)
           THEN /\ sample' = [waveform |-> windows[window_idx + 1],
                              label |-> species_to_idx[row.species_code],
                              clip_id |-> ClipId(clip_idx),
                              species |-> row.species_code,
                              window_idx |-> window_idx]
                /\ pc' = "ready"
                /\ raised' = raised
           ELSE /\ sample' = sample
                /\ pc' = "raised"
                /\ raised' = "IndexError"
    /\ UNCHANGED <<outVars, batchVars, splitVars, melVars>>
    /\ UNCHANGED <<cfgVars, dataVars, duration_s, item, winVars>>

Init ==
    /\ sample_rate \in SampleRates
    /\ window_seconds \in DataSeconds
    /\ hop_seconds \in DataSeconds
    /\ use_windowing \in BOOLEAN
    /\ subset \in Subsets
    /\ species_list = <<>>
    /\ species_to_idx = <<>>
    /\ index = <<>>
    /\ duration_s = 0
    /\ item = 0
    /\ waveform = <<>>
    /\ window_samples = 0
    /\ hop_samples = 0
    /\ start = 0
    /\ windows = <<>>
    /\ sample = NoSample
    /\ raised = "none"
    /\ printed = <<>>
    /\ data = <<>>
    /\ batch = <<>>
    /\ collated = NoBatch
    /\ served = {}
    /\ species_recordings = <<>>
    /\ train_ids = <<>>
    /\ val_ids = <<>>
    /\ test_ids = <<>>
    /\ split_pos = 0
    /\ shuffle_i = 0
    /\ hop_length = 1
    /\ mel = <<>>
    /\ win_f = 0
    /\ hop_f = 0
    /\ chunks = <<>>
    /\ pc = "new"

Next ==
    \/ BuildIndex
    \/ GetItem
    \/ WinEnter
    \/ WinLoop
    \/ WinTail
    \/ GetItemReturn

Spec == Init /\ [][Next]_vars

\* Opening a split, by either loader: prepare_split returns the list of
\* loaded clips, BirdAudioDataset(...) builds the vocabulary and the index.
NextOpen == PrepareSplit \/ BuildIndex

SpecOpen == Init /\ [][NextOpen]_vars

----------------------------------------------------------------------------
(* DataLoader over a BirdAudioDataset with collate_fn = bucket_collate_fn. *)

\* DataLoader(dataset, batch_size=4, ...)
batch_size == 4

\* range(len(dataset)): the positions the sampler of the loader draws from
SamplerPositions == 0..(Len(index) - 1)

\* torch.stack(tensors): raises RuntimeError on an empty list and on
\* tensors of different sizes
StackRaises(tensors) ==
    \/ tensors = <<>>
    \/ \E i, j \in 1..Len(tensors) : Len(tensors[i]) # Len(tensors[j])

\* faulty variant: the clip ids come out in reverse order
bucket_collate_fn_reversed_ids(b) ==
    [waveforms |-> [i \in 1..Len(b) |-> b[i].waveform],
     labels |-> [i \in 1..Len(b) |-> b[i].label],
     clip_ids |-> [i \in 1..Len(b) |-> b[Len(b) + 1 - i].clip_id],
     species |-> [i \in 1..Len(b) |-> b[i].species],
     window_indices |-> [i \in 1..Len(b) |-> b[i].window_idx]]

\* bucket_collate_fn(batch), where torch.stack does not raise
bucket_collate_fn(b) ==
    [waveforms |-> [i \in 1..Len(b) |-> b[i].waveform],
     labels |-> [i \in 1..Len(b) |-> b[i].label],
     clip_ids |-> [i \in 1..Len(b) |-> b[i].clip_id],
     species |-> [i \in 1..Len(b) |-> b[i].species],
     window_indices |-> [i \in 1..Len(b) |-> b[i].window_idx]]

\* the loader calls dataset[i] for the next position of its sampler.  With
\* shuffle=True the positions come from a random permutation of
\* range(len(dataset)), so a position is drawn once in the pass of an
\* iterator over the dataset.  The call is made for a batch that is not yet
\* full, after the sample of the call before has been taken into the batch.
LoaderGetItem ==
    /\ sample = NoSample
    /\ collated = NoBatch => Len(batch) < batch_size
    /\ GetItem
    /\ item' \notin served

\* the loader takes the dict returned by dataset[i] into the list of the
\* batch it is fetching; the dict of the batch before is dropped
Fetch ==
    /\ pc = "ready"
    /\ sample # NoSample
    /\ item \notin served
    /\ served' = served \cup {item}
    /\ IF collated # NoBatch
       THEN batch' = <<sample>>
       ELSE Len(batch) < batch_size /\ batch' = Append(batch, sample)
    /\ collated' = NoBatch
    /\ sample' = NoSample
    /\ UNCHANGED <<outVars, splitVars, melVars>>
    /\ UNCHANGED <<cfgVars, dataVars, pc, duration_s, item, winVars, raised>>

\* the loader calls bucket_collate_fn on the fetched list: a full batch of
\* batch_size samples, or the shorter last one of a pass (drop_last is off)
Collate ==
    /\ pc = "ready"
    /\ collated = NoBatch
    /\ Len(batch) >= 1
    /\ Len(batch) = batch_size \/ served = SamplerPositions
    /\ IF StackRaises([i \in 1..Len(batch) |-> batch[i].waveform])
       THEN /\ raised' = "RuntimeError"
            /\ pc' = "raised"
            /\ collated' = collated
       ELSE /\ collated' = bucket_collate_fn(batch)
            /\ pc' = pc
            /\ raised' = raised
    /\ UNCHANGED <<outVars, splitVars, batch, served, melVars>>
    /\ UNCHANGED <<cfgVars, dataVars, duration_s, item, winVars, sample>>

\* the splits the loader is run on: one or two clips, all present
BatchSubsets ==
    UNION {[1..n -> {r \in Rows : r.exists}] : n \in 1..2}

\* a split whose files are all present, before the dataset is built
InitBatch ==
    /\ sample_rate \in SampleRates
    /\ window_seconds \in DataSeconds
    /\ hop_seconds \in DataSeconds
    /\ use_windowing \in BOOLEAN
    /\ subset \in BatchSubsets
    /\ species_list = <<>>
    /\ species_to_idx = <<>>
    /\ index = <<>>
    /\ duration_s = 0
    /\ item = 0
    /\ waveform = <<>>
    /\ window_samples = 0
    /\ hop_samples = 0
    /\ start = 0
    /\ windows = <<>>
    /\ sample = NoSample
    /\ raised = "none"
    /\ printed = <<>>
    /\ data = <<>>
    /\ batch = <<>>
    /\ collated = NoBatch
    /\ served = {}
    /\ species_recordings = <<>>
    /\ train_ids = <<>>
    /\ val_ids = <<>>
    /\ test_ids = <<>>
    /\ split_pos = 0
    /\ shuffle_i = 0
    /\ hop_length = 1
    /\ mel = <<>>
    /\ win_f = 0
    /\ hop_f = 0
    /\ chunks = <<>>
    /\ pc = "new"

NextBatch ==
    \/ BuildIndex
    \/ LoaderGetItem
    \/ WinEnter
    \/ WinLoop
    \/ WinTail
    \/ GetItemReturn
    \/ Fetch
    \/ Collate

SpecBatch == InitBatch /\ [][NextBatch]_vars

----------------------------------------------------------------------------
(* create_splits.py: the stratified split of the scanned recordings.       *)

\* TRAIN_RATIO = 0.70 and VAL_RATIO = 0.15, in hundredths
TRAIN_RATIO == 70
VAL_RATIO == 15

\* the ids of the .wav files of a species folder holding n recordings; ids
\* of equal width, so that their text order is their numeric order
FolderIdSet(sp, n) == {10 * sp + i : i \in 1..n}

\* the arrangements of the elements of the finite set S
RECURSIVE Arrangements(_)
Arrangements(S) ==
    IF S = {} THEN {<<>>}
    ELSE UNION {{<<x>> \o p : p \in Arrangements(S \ {x})} : x \in S}

\* species_folder.glob("*.wav"): the directory is enumerated in an order the
\* file system chooses, so a folder's list is any arrangement of its ids
ScanOrders(sp, n) == Arrangements(FolderIdSet(sp, n))

\* the value of i at the first pass of random.shuffle(x), whose loop is
\* for i in reversed(range(1, len(x))); 0 when the loop has no pass
FirstShuffleIndex(x) == IF Len(x) >= 1 THEN Len(x) - 1 ELSE 0

\* x[i], x[j] = x[j], x[i] on 0-based positions
Swapped(x, i, j) ==
    [k \in 1..Len(x) |->
        IF k = i + 1 THEN x[j + 1] ELSE IF k = j + 1 THEN x[i + 1] ELSE x[k]]

\* list.sort(): insertion of x into the sorted list s
RECURSIVE InsertSorted(_, _)
InsertSorted(x, s) ==
    IF s = <<>> THEN <<x>>
    ELSE IF x <= Head(s) THEN <<x>> \o s
    ELSE <<Head(s)>> \o InsertSorted(x, Tail(s))

\* list.sort()
RECURSIVE SortedList(_)
SortedList(s) ==
    IF s = <<>> THEN <<>> ELSE InsertSorted(Head(s), SortedList(Tail(s)))

\* sorted(species_recordings.items()): the species names in order
SortedSpecies == SortedSeq(DOMAIN species_recordings)

\* n_train = int(n_total * TRAIN_RATIO)
NTrain(n_total) == PyIntOfProduct(TRAIN_RATIO, 100, n_total)
\* n_val = int(n_total * VAL_RATIO)
NVal(n_total) == PyIntOfProduct(VAL_RATIO, 100, n_total)

\* faulty variant: the test slice starts where the val slice starts
TestSliceFromTrain(recordings, n_train, n_val) ==
    PySlice(recordings, n_train, Len(recordings))

\* test = recordings[n_train + n_val:]
TestSlice(recordings, n_train, n_val) ==
    PySlice(recordings, n_train + n_val, Len(recordings))

\* one pass of the loop of random.shuffle(recordings), which shuffles the
\* species' list in place: j = randbelow(i + 1), then x[i] and x[j] change
\* places; the draws of the generator are left open
ShuffleStep ==
    /\ pc = "split"
    /\ split_pos < Len(SortedSpecies)
    /\ shuffle_i >= 1
    /\ LET species == SortedSpecies[split_pos + 1]
           recordings == species_recordings[species]
       IN  \E j \in 0..shuffle_i :
             species_recordings' =
                 [species_recordings EXCEPT
                     ![species] = Swapped(recordings, shuffle_i, j)]
    /\ shuffle_i' = shuffle_i - 1
    /\ UNCHANGED <<train_ids, val_ids, test_ids, split_pos>>
    /\ UNCHANGED <<outVars, batchVars, melVars>>
    /\ UNCHANGED <<cfgVars, dataVars, pc, duration_s, item, winVars, sample,
                   raised>>

\* the rest of one pass of the loop over sorted(species_recordings.items()),
\* once the species' list is shuffled: the three slices are taken and
\* appended, and the next pass, if any, enters its shuffle
SplitSpecies ==
    /\ pc = "split"
    /\ split_pos < Len(SortedSpecies)
    /\ shuffle_i = 0
    /\ LET species == SortedSpecies[split_pos + 1]
           recordings == species_recordings[species]
           n_total == Len(recordings)
           n_train == NTrain(n_total)
           n_val == NVal(n_total)
           train == PySlice(recordings, 0, n_train)
           val == PySlice(recordings, n_train, n_train + n_val)
           test == TestSlice(recordings, n_train, n_val)
       IN  /\ train_ids' = train_ids \o train
           /\ val_ids' = val_ids \o val
           /\ test_ids' = test_ids \o test
    /\ split_pos' = split_pos + 1
    /\ shuffle_i' =
           IF split_pos + 1 < Len(SortedSpecies)
           THEN FirstShuffleIndex(
                    species_recordings[SortedSpecies[split_pos + 2]])
           ELSE 0
    /\ UNCHANGED species_recordings
    /\ UNCHANGED <<outVars, batchVars, melVars>>
    /\ UNCHANGED <<cfgVars, dataVars, pc, duration_s, item, winVars, sample,
                   raised>>

\* sum(len(r) for r in species_recordings.values())
RECURSIVE TotalRecordings(_)
TotalRecordings(k) ==
    IF k = 0 THEN 0
    ELSE Len(species_recordings[SortedSpecies[k]]) + TotalRecordings(k - 1)

\* after the loop: the three lists are sorted, the summary is printed (its
\* percentages divide by the total number of recordings) and the id files
\* are written
WriteSplits ==
    /\ pc = "split"
    /\ split_pos = Len(SortedSpecies)
    /\ train_ids' = SortedList(train_ids)
    /\ val_ids' = SortedList(val_ids)
    /\ test_ids' = SortedList(test_ids)
    /\ IF TotalRecordings(Len(SortedSpecies)) = 0
       THEN pc' = "raised" /\ raised' = "ZeroDivisionError"
       ELSE pc' = "written" /\ raised' = raised
    /\ UNCHANGED <<outVars, batchVars, species_recordings, split_pos,
                   shuffle_i, melVars>>
    /\ UNCHANGED <<cfgVars, dataVars, duration_s, item, winVars, sample>>

\* the numbers of recordings of the folders: one folder of up to
\* MaxRecordings recordings, the other folders of up to two, a second
\* recording only next to a first folder that is not full
FolderSizes ==
    {m \in [Species -> 0..MaxRecordings] :
        \A sp \in Species \ {1} :
            m[sp] <= 2 /\ m[1] + m[sp] <= MaxRecordings + 1}

\* the lists the scan can build for the folders S holding n[sp] recordings
RECURSIVE Scans(_, _)
Scans(S, n) ==
    IF S = {} THEN {<<>>}
    ELSE LET sp == CHOOSE x \in S : TRUE
         IN  {[k \in S |-> IF k = sp THEN o ELSE r[k]] :
                  o \in ScanOrders(sp, n[sp]), r \in Scans(S \ {sp}, n)}

\* the state after the scan of DATA_DIR, every folder's list in one of the
\* orders the enumeration can give, and the first shuffle about to begin
InitSplits ==
    /\ \E n \in FolderSizes : species_recordings \in Scans(Species, n)
    /\ shuffle_i = FirstShuffleIndex(species_recordings[SortedSpecies[1]])
    /\ train_ids = <<>>
    /\ val_ids = <<>>
    /\ test_ids = <<>>
    /\ split_pos = 0
    /\ hop_length = 1
    /\ mel = <<>>
    /\ win_f = 0
    /\ hop_f = 0
    /\ chunks = <<>>
    /\ pc = "split"
    /\ sample_rate = DefaultSampleRate
    /\ window_seconds = 0
    /\ hop_seconds = 0
    /\ use_windowing = FALSE
    /\ subset = <<>>
    /\ species_list = <<>>
    /\ species_to_idx = <<>>
    /\ index = <<>>
    /\ duration_s = 0
    /\ item = 0
    /\ waveform = <<>>
    /\ window_samples = 0
    /\ hop_samples = 0
    /\ start = 0
    /\ windows = <<>>
    /\ sample = NoSample
    /\ raised = "none"
    /\ printed = <<>>
    /\ data = <<>>
    /\ batch = <<>>
    /\ collated = NoBatch
    /\ served = {}

NextSplits == ShuffleStep \/ SplitSpecies \/ WriteSplits

SpecSplits == InitSplits /\ [][NextSplits]_vars

----------------------------------------------------------------------------
(* melspec.py: chop_windows over the time frames of a log-mel feature map. *)

\* cfg["audio"]["hop_length"]: the hop lengths of the feature extraction
HopLengths == {1, 2}

\* range(lo, hi, step) for step # 0, as the list of its values
RECURSIVE PyRange(_, _, _)
PyRange(lo, hi, step) ==
    IF (step > 0 /\ lo < hi) \/ (step < 0 /\ lo > hi)
    THEN <<lo>> \o PyRange(lo + step, hi, step)
    ELSE <<>>

\* round(x * y) in double arithmetic for x the double of num1/den1 and y
\* the double of the quotient num2/den2, all four positive.  Where the exact
\* product V is not k + 1/2 for a whole k, the result is the rounding of V.
\* Where it is, the product of the two doubles lies off V by D / (den1 *
\* den2) * 2^-52, D gathering the two errors, and is rounded to a double: to
\* one above V (round() gives k + 1) when D exceeds half the spacing of the
\* doubles above V, to one below V (round() gives k) when -D exceeds half the
\* spacing below V, and to V itself otherwise, which round() takes to the
\* even one of k and k + 1.  Where D is exactly half a spacing the product
\* of the two errors decides.
RoundOfProductMagnitude(num1, den1, num2, den2) ==
    LET num == num1 * num2
        den == den1 * den2
    IN  IF (2 * num) % den # 0 \/ num % den = 0 THEN PyRound(num, den)
        ELSE LET k == num \div den
                 ea == UlpError(num1, den1)
                 Ea == FloorLog2(num1, den1)
                 eb == UlpError(num2, den2)
                 Eb == FloorLog2(num2, den2)
                 EV == FloorLog2(num, den)
                 m == MinOf({EV - 2}
                            \cup (IF ea # 0 THEN {Ea} ELSE {})
                            \cup (IF eb # 0 THEN {Eb} ELSE {}))
                 D == (IF eb # 0 THEN Scaled(num1 * eb, Eb, m) ELSE 0)
                      + (IF ea # 0 THEN Scaled(num2 * ea, Ea, m) ELSE 0)
                 Hup == Scaled(den, EV - 1, m)
                 Hdn == IF 2 * num = den THEN Scaled(den, EV - 2, m) ELSE Hup
             IN  IF D > Hup \/ (D = Hup /\ ea * eb > 0) THEN k + 1
                 ELSE IF 0 - D > Hdn \/ (0 - D = Hdn /\ ea * eb < 0) THEN k
                 ELSE IF k % 2 = 0 THEN k ELSE k + 1

\* int(round(seconds * frames_per_sec)) with frames_per_sec = sr / hop_length,
\* in double arithmetic, seconds being the double of seconds / TimeScale
FramesOf(seconds, sr, hl) ==
    IF seconds = 0 THEN 0
    ELSE IF seconds < 0
    THEN 0 - RoundOfProductMagnitude(0 - seconds, TimeScale, sr, hl)
    ELSE RoundOfProductMagnitude(seconds, TimeScale, sr, hl)

\* the chunks of "for start in range(0, mel.shape[1] - win_f + 1, hop_f)"
Chunks(m, wf, hf) ==
    LET starts == PyRange(0, Len(m) - wf + 1, hf)
    IN  [k \in 1..Len(starts) |-> PySlice(m, starts[k], starts[k] + wf)]

\* chop_windows(mel, sr, cfg); range() raises ValueError for a zero step
ChopWindows ==
    /\ pc = "chop"
    /\ win_f' = FramesOf(window_seconds, sample_rate, hop_length)
    /\ hop_f' = FramesOf(hop_seconds, sample_rate, hop_length)
    /\ IF hop_f' = 0
       THEN /\ raised' = "ValueError"
            /\ pc' = "raised"
            /\ chunks' = chunks
       ELSE /\ chunks' = Chunks(mel, win_f', hop_f')
            /\ pc' = "chopped"
            /\ raised' = raised
    /\ UNCHANGED <<outVars, batchVars, splitVars, hop_length, mel>>
    /\ UNCHANGED <<cfgVars, dataVars, duration_s, item, winVars, sample>>

\* a feature map of each number of frames, before chop_windows is called
InitChop ==
    /\ sample_rate \in SampleRates
    /\ hop_length \in HopLengths
    /\ window_seconds \in DataSeconds
    /\ hop_seconds \in DataSeconds
    /\ duration_s \in Durations
    /\ mel = SyntheticAudio(duration_s)
    /\ win_f = 0
    /\ hop_f = 0
    /\ chunks = <<>>
    /\ pc = "chop"
    /\ use_windowing = TRUE
    /\ subset = <<>>
    /\ species_list = <<>>
    /\ species_to_idx = <<>>
    /\ index = <<>>
    /\ item = 0
    /\ waveform = <<>>
    /\ window_samples = 0
    /\ hop_samples = 0
    /\ start = 0
    /\ windows = <<>>
    /\ sample = NoSample
    /\ raised = "none"
    /\ printed = <<>>
    /\ data = <<>>
    /\ batch = <<>>
    /\ collated = NoBatch
    /\ served = {}
    /\ species_recordings = <<>>
    /\ train_ids = <<>>
    /\ val_ids = <<>>
    /\ test_ids = <<>>
    /\ split_pos = 0
    /\ shuffle_i = 0

NextChop == ChopWindows

SpecChop == InitChop /\ [][NextChop]_vars

----------------------------------------------------------------------------
(* Properties of the windower (SpecWin).                                   *)

Returned == pc = "return"
PositiveConfig == window_samples > 0 /\ hop_samples > 0
\* Case 3 of create_fixed_windows: neither single-window case applies.
Tiled == Len(waveform) > window_samples + PyFloorDiv(hop_samples, 2)
\* Number of windows the sliding loop has emitted when it stops (H > 0).
LoopCount == start \div hop_samples
\* Number of start offsets i*H with i*H + W <= L (tiled case, H > 0).
FullyContained == ((Len(waveform) - window_samples) \div hop_samples) + 1

\* C1: for every positive window_samples and hop_samples, the count the
\* index builder estimates from the duration equals the number of windows
\* create_fixed_windows returns for a waveform of int(duration * sr) samples.
C1_EstimateEqualsWindowCount ==
    (Returned /\ PositiveConfig) =>
        Len(windows) = num_windows(duration_s, sample_rate,
                                   window_seconds, hop_seconds)

\* C3: every emitted window holds exactly window_samples samples, and in
\* the tiled case every window is an unpadded run of consecutive samples.
C3_EveryWindowHasWindowSamples ==
    (pc \in {"loop", "return"} /\ PositiveConfig) =>
        \A i \in 1..Len(windows) :
            /\ Len(windows[i]) = window_samples
            /\ Tiled => \A j \in 1..Len(windows[i]) :
                            /\ windows[i][j] # 0
                            /\ windows[i][j] = windows[i][1] + (j - 1)

\* a tiled clip of three or more windows, the last one the appended tail
C3_Witness ==
    /\ Returned /\ PositiveConfig /\ Tiled
    /\ Len(windows) >= 3
    /\ Len(windows) = LoopCount + 1

\* C4: in the tiled case the last sample of the final window is the last
\* sample of the waveform, for every positive window_samples, hop_samples.
C4_TailCovered ==
    (Returned /\ PositiveConfig /\ Tiled) =>
        /\ Len(windows) > 0
        /\ LET lw == windows[Len(windows)]
           IN  /\ Len(lw) > 0
               /\ lw[Len(lw)] = waveform[Len(waveform)]

\* C5: in the tiled case a final window is appended after the loop exactly
\* when the end of the last window the loop emitted is short of the end of
\* the waveform.
C5_TailIffLastEndShort ==
    (Returned /\ PositiveConfig /\ Tiled) =>
        ((Len(windows) = LoopCount + 1)
            <=> ((start - hop_samples) + window_samples < Len(waveform)))

\* C6: a waveform shorter than the window yields exactly one window: the
\* waveform in order, followed by zeros up to window_samples.
C6_ShortClipZeroPadded ==
    (Returned /\ Len(waveform) < window_samples) =>
        /\ Len(windows) = 1
        /\ Len(windows[1]) = window_samples
        /\ \A i \in 1..window_samples :
               windows[1][i] = IF i <= Len(waveform) THEN waveform[i] ELSE 0

\* a non-empty waveform that needed at least two samples of padding
C6_Witness ==
    /\ Returned
    /\ Len(waveform) > 0
    /\ Len(waveform) + 2 <= window_samples
    /\ Len(windows) = 1

\* C7: a waveform of window_samples up to window_samples + hop_samples // 2
\* samples yields exactly one window, its first window_samples samples; at
\* exactly window_samples samples the window is the input itself.
C7_NearExactCropped ==
    (/\ Returned
     /\ window_samples >= 0
     /\ window_samples <= Len(waveform)
     /\ Len(waveform) <= window_samples + PyFloorDiv(hop_samples, 2)) =>
        /\ windows = <<SubSeq(waveform, 1, window_samples)>>
        /\ (Len(waveform) = window_samples => windows = <<waveform>>)

\* a waveform longer than the window that was cropped
C7_Witness ==
    /\ Returned
    /\ window_samples > 0
    /\ window_samples < Len(waveform)
    /\ Len(waveform) <= window_samples + PyFloorDiv(hop_samples, 2)
    /\ Len(windows) = 1

\* C8: in the tiled case the loop's windows are, in order, the slices
\* waveform[i*H : i*H + W] for every i with i*H + W <= len(waveform); at most
\* one further window (the tail) follows them.
C8_LoopEmitsEveryContainedSlice ==
    (pc \in {"loop", "return"} /\ PositiveConfig /\ Tiled) =>
        /\ Len(windows) <= FullyContained + 1
        /\ Returned => Len(windows) >= FullyContained
        /\ \A i \in 0..(FullyContained - 1) :
               i < Len(windows) =>
                   windows[i + 1] = SubSeq(waveform, i * hop_samples + 1,
                                           i * hop_samples + window_samples)

\* three or more fully contained, overlapping windows were emitted
C8_Witness ==
    /\ Returned /\ PositiveConfig /\ Tiled
    /\ FullyContained >= 3
    /\ hop_samples < window_samples
    /\ Len(windows) >= FullyContained

----------------------------------------------------------------------------
(* Properties of the dataset (Spec).                                       *)

\* window_samples / hop_samples as both components compute them
CfgWindowSamples == SamplesOf(window_seconds, sample_rate)
CfgHopSamples == SamplesOf(hop_seconds, sample_rate)
\* __init__ has returned normally: the index is the finished Split Index
IndexBuilt == pc \notin {"new", "prepared"} /\ raised # "ZeroDivisionError"
\* the estimated window count of the row at 1-based position i
EstimateOf(i) ==
    num_windows(subset[i].duration_s, sample_rate, window_seconds, hop_seconds)

RECURSIVE EntriesBefore(_)
\* sum of the estimates of the present rows before 1-based position i
EntriesBefore(i) ==
    IF i <= 1 THEN 0
    ELSE EntriesBefore(i - 1)
         + (IF subset[i - 1].exists THEN EstimateOf(i - 1) ELSE 0)

\* C2: with windowing on and positive window_samples and hop_samples, the
\* ordinal of the index entry being materialized is below the number of
\* windows create_fixed_windows returned for the clip's waveform of
\* int(duration_s * sample_rate) samples.
C2_OrdinalWithinWindows ==
    (/\ pc = "return" /\ use_windowing /\ PositiveConfig
     /\ Len(waveform) = SamplesOf(subset[index[item + 1][1] + 1].duration_s,
                                  sample_rate)) =>
        index[item + 1][2] < Len(windows)

\* C9: with windowing on and window_samples or hop_samples not positive,
\* neither the index builder nor the windower produces anything: no index
\* entry is appended, no window is emitted and the windower never returns.
C9_NonPositiveConfigRejected ==
    (use_windowing /\ (CfgWindowSamples <= 0 \/ CfgHopSamples <= 0)) =>
        /\ index = <<>>
        /\ windows = <<>>
        /\ pc # "return"

\* C10: with windowing on, the finished index is the concatenation over the
\* present rows, in row order, of (row, 0), ..., (row, n - 1) with n >= 1 the
\* row's estimated window count; its length is the sum of the n.
C10_IndexIsConcatenationOfRuns ==
    (IndexBuilt /\ use_windowing
     /\ CfgWindowSamples >= 0 /\ CfgHopSamples >= 0) =>
        /\ Len(index) = EntriesBefore(Len(subset) + 1)
        /\ \A i \in 1..Len(subset) :
               subset[i].exists =>
                   /\ EstimateOf(i) >= 1
                   /\ \A k \in 0..(EstimateOf(i) - 1) :
                          index[EntriesBefore(i) + k + 1] = <<i - 1, k>>

\* two present clips, the first with several windows
C10_Witness ==
    /\ IndexBuilt /\ use_windowing
    /\ CfgWindowSamples > 0 /\ CfgHopSamples > 0
    /\ Len(subset) >= 2
    /\ subset[1].exists /\ subset[2].exists
    /\ EstimateOf(1) >= 2
    /\ Len(index) = EstimateOf(1) + EstimateOf(2)
    /\ index[Len(index)] = <<1, EstimateOf(2) - 1>>

\* 1-based positions of the rows whose file exists / is missing
PresentRows == {i \in 1..Len(subset) : subset[i].exists}
MissingRows == {i \in 1..Len(subset) : ~subset[i].exists}
\* the 0-based clip positions the index refers to
IndexedClips == {index[k][1] : k \in 1..Len(index)}

\* C11: a row whose file is missing has no index entry, a row whose file is
\* present has at least one, and the index refers to N - M distinct clips,
\* with windowing on or off.
C11_IndexCoversExactlyPresentClips ==
    (IndexBuilt
     /\ (use_windowing => CfgWindowSamples >= 0 /\ CfgHopSamples >= 0)) =>
        /\ \A i \in MissingRows : (i - 1) \notin IndexedClips
        /\ \A i \in PresentRows : (i - 1) \in IndexedClips
        /\ Cardinality(IndexedClips)
               = Len(subset) - Cardinality(MissingRows)

\* a missing row in front of a present row that has several windows
C11_Witness ==
    /\ IndexBuilt /\ use_windowing
    /\ Len(subset) = 2
    /\ ~subset[1].exists /\ subset[2].exists
    /\ Len(index) >= 2
    /\ IndexedClips = {1}

\* the present rows' positions in row order (claim helper)
RECURSIVE PresentSeq(_)
PresentSeq(i) ==
    IF i > Len(subset) THEN <<>>
    ELSE (IF subset[i].exists THEN <<i>> ELSE <<>>) \o PresentSeq(i + 1)

\* C13: with windowing off the index holds exactly one entry (clip, 0) per
\* present clip, in row order, whatever the clip's duration.
C13_OneEntryPerClipWithoutWindowing ==
    (IndexBuilt /\ ~use_windowing) =>
        /\ Len(index) = Cardinality(PresentRows)
        /\ \A k \in 1..Len(index) :
               /\ index[k][2] = 0
               /\ index[k][1] = PresentSeq(1)[k] - 1

\* two present clips of different durations, one of which the estimate
\* would give several windows
C13_Witness ==
    /\ IndexBuilt /\ ~use_windowing
    /\ CfgWindowSamples > 0 /\ CfgHopSamples > 0
    /\ Len(subset) = 2
    /\ subset[1].exists /\ subset[2].exists
    /\ subset[1].duration_s # subset[2].duration_s
    /\ EstimateOf(2) >= 2
    /\ Len(index) = 2

\* the species codes of all rows of the subset
SubsetSpecies == {subset[i].species_code : i \in 1..Len(subset)}
\* the rearrangements of the subset's rows
RowPermutations ==
    {f \in [1..Len(subset) -> 1..Len(subset)] :
        \A i, j \in 1..Len(subset) : f[i] = f[j] => i = j}

\* C14: species_list is the strictly increasing list of the species codes of
\* all rows, missing files included; species_to_idx maps its i-th entry to
\* i - 1; every rearrangement of the rows gives the same mapping.
C14_VocabularySortedAndStable ==
    IndexBuilt =>
        /\ \A i \in 1..(Len(species_list) - 1) :
               species_list[i] < species_list[i + 1]
        /\ {species_list[i] : i \in 1..Len(species_list)} = SubsetSpecies
        /\ DOMAIN species_to_idx = SubsetSpecies
        /\ \A i \in 1..Len(species_list) :
               species_to_idx[species_list[i]] = i - 1
        /\ \A f \in RowPermutations :
               SpeciesToIdx(SpeciesList([i \in 1..Len(subset) |-> subset[f[i]]]))
                   = species_to_idx

\* the larger species code comes first and belongs to a missing file
C14_Witness ==
    /\ IndexBuilt
    /\ Len(subset) = 2
    /\ subset[1].species_code > subset[2].species_code
    /\ ~subset[1].exists
    /\ species_list = <<subset[2].species_code, subset[1].species_code>>
    /\ species_to_idx[subset[1].species_code] = 1

\* C12: after the index is built over a subset with M missing files, M
\* omissions have been reported (one printed line per missing file).
C12_SkipCountReported ==
    IndexBuilt => Len(printed) = Cardinality(MissingRows)

\* prepare_split, the other loader of a split, prints one line per missing
\* file and loads the present ones.
PrepareSplitReportsMisses ==
    pc = "prepared" =>
        /\ Len(printed) = Cardinality(MissingRows)
        /\ Len(data) = Cardinality(PresentRows)

\* The step-wise windower returns what create_fixed_windows computes.
WindowerStepsAgree ==
    (Returned /\ hop_samples > 0) =>
        windows = create_fixed_windows(waveform, sample_rate,
                                       window_seconds, hop_seconds)

\* a call of __getitem__ has returned its dict
Materialized == pc = "ready" /\ sample # NoSample

\* C15: the dict returned for position p holds element `ordinal` of the
\* windower output for the clip of index[p] under the stored configuration,
\* the vocabulary code of the clip's species (in 0..K-1), and the entry's
\* clip id, species and ordinal.
C15_MaterializedIsIndexedWindow ==
    (Materialized /\ CfgWindowSamples > 0 /\ CfgHopSamples > 0) =>
        LET clip_idx == index[item + 1][1]
            window_idx == index[item + 1][2]
            row == subset[clip_idx + 1]
            out == create_fixed_windows(LoadedAudio(row, sample_rate),
                                        sample_rate, window_seconds,
                                        hop_seconds)
        IN  /\ window_idx < Len(out)
            /\ sample.waveform = out[window_idx + 1]
            /\ sample.label \in 0..(Len(species_list) - 1)
            /\ species_list[sample.label + 1] = row.species_code
            /\ sample.clip_id = ClipId(clip_idx)
            /\ sample.species = row.species_code
            /\ sample.window_idx = window_idx

\* the same statement for datasets that window their clips
MaterializedWindowingOn ==
    use_windowing => C15_MaterializedIsIndexedWindow

\* C20: the windower's window_samples and hop_samples are the nearest
\* integers to window_seconds * sample_rate and hop_seconds * sample_rate.
C20_SampleCountsAreRounded ==
    pc # "call" =>
        /\ window_samples = PyRound(window_seconds * sample_rate, TimeScale)
        /\ hop_samples = PyRound(hop_seconds * sample_rate, TimeScale)

\* The windower called by __getitem__ derives the sample counts the index
\* builder derived, and the decoded length is floor(duration_s * sample_rate).
BothComponentsSameCounts ==
    (pc \in {"loop", "return"}) =>
        /\ window_samples = CfgWindowSamples
        /\ hop_samples = CfgHopSamples
        /\ \E i \in PresentRows :
               Len(waveform) = (subset[i].duration_s * sample_rate) \div TimeScale

\* the ids of list s that were found in the folder of species sp
IdsOf(sp, s) ==
    {s[i] : i \in 1..Len(s)}
        \cap {species_recordings[sp][i] : i \in 1..Len(species_recordings[sp])}

\* C19: every species folder with at least one recording has at least one
\* recording in each of the written train, val and test lists.
C19_EachSpeciesInEachSplit ==
    pc = "written" =>
        \A sp \in DOMAIN species_recordings :
            Len(species_recordings[sp]) >= 1 =>
                /\ IdsOf(sp, train_ids) # {}
                /\ IdsOf(sp, val_ids) # {}
                /\ IdsOf(sp, test_ids) # {}

\* What the split sizes do give: the test list has a recording of every
\* species that has one, the train list of every species that has two.
TestAlwaysRepresented ==
    pc = "written" =>
        \A sp \in DOMAIN species_recordings :
            /\ Len(species_recordings[sp]) >= 1 => IdsOf(sp, test_ids) # {}
            /\ Len(species_recordings[sp]) >= 2 => IdsOf(sp, train_ids) # {}

\* the waveforms of the list s all have one length
SameLength(s) ==
    \A i, j \in 1..Len(s) : Len(s[i]) = Len(s[j])

\* C16: whatever the configuration, the samples fetched for one batch all
\* have the same waveform length, so bucket_collate_fn never raises.
C16_BatchShapeInvariant ==
    /\ raised # "RuntimeError"
    /\ SameLength([i \in 1..Len(batch) |-> batch[i].waveform])

\* the same statement for datasets that window their clips
BatchShapeWindowingOn ==
    use_windowing => C16_BatchShapeInvariant

\* C17: the dict returned by bucket_collate_fn has K entries in each of its
\* five fields, and the i-th entry of each is the field of the i-th sample.
C17_BatchAligned ==
    collated # NoBatch =>
        /\ Len(batch) >= 1
        /\ Len(collated.waveforms) = Len(batch)
        /\ Len(collated.labels) = Len(batch)
        /\ Len(collated.clip_ids) = Len(batch)
        /\ Len(collated.species) = Len(batch)
        /\ Len(collated.window_indices) = Len(batch)
        /\ \A i \in 1..Len(batch) :
               /\ collated.waveforms[i] = batch[i].waveform
               /\ collated.labels[i] = batch[i].label
               /\ collated.clip_ids[i] = batch[i].clip_id
               /\ collated.species[i] = batch[i].species
               /\ collated.window_indices[i] = batch[i].window_idx

\* a collated full batch drawn from two clips of different species, three
\* windows each: window 1 of the second clip, then windows 2, 1 and 0 of the
\* first
C17_Witness ==
    /\ collated # NoBatch
    /\ Len(batch) = batch_size
    /\ Len(index) = 6
    /\ sample_rate = 10 /\ window_seconds = 1 /\ hop_seconds = 1
    /\ \A i \in 1..Len(subset) : subset[i].duration_s = 3
    /\ collated.waveforms = <<<<2>>, <<3>>, <<2>>, <<1>>>>
    /\ collated.clip_ids = <<ClipId(1), ClipId(0), ClipId(0), ClipId(0)>>
    /\ collated.window_indices = <<1, 2, 1, 0>>
    /\ collated.labels[1] # collated.labels[2]
    /\ collated.species[1] # collated.species[2]

\* C18: once the dataset is built, no step of __getitem__, of the windower
\* it calls, of the loader or of bucket_collate_fn changes the index, the
\* vocabulary or the stored configuration.
C18_SamplingLeavesIndexUnchanged ==
    [][IndexBuilt =>
          UNCHANGED <<index, species_list, species_to_idx, sample_rate,
                      window_seconds, hop_seconds, use_windowing>>]_vars

\* a batch has been materialized and collated, and the index and the
\* vocabulary are still the ones __init__ built
C18_Witness ==
    /\ IndexBuilt
    /\ collated # NoBatch
    /\ Len(batch) = 2
    /\ Len(index) >= 3
    /\ index = IndexLoop(subset, 1, use_windowing, sample_rate,
                         window_seconds, hop_seconds)
    /\ species_list = SpeciesList(subset)
    /\ species_to_idx = SpeciesToIdx(species_list)

\* C21: with positive window_seconds and hop_seconds every iteration of the
\* sliding loop strictly increases start, so the loop condition
\* start + window_samples <= audio_length becomes false and the call returns.
C21_LoopAdvances ==
    [][(pc = "loop" /\ pc' = "loop"
        /\ window_seconds > 0 /\ hop_seconds > 0) => start' > start]_vars

\* With hop_samples > 0 the loop does leave: it never needs more than
\* audio_length iterations.
PositiveHopLoopEnds ==
    (pc = "loop" /\ hop_samples > 0 /\ window_samples >= 0) =>
        /\ Len(windows) <= Len(waveform) + 1
        /\ start = Len(windows) * hop_samples
        /\ (start + window_samples <= Len(waveform)
               => Len(windows) < MaxWindows)

\* With hop_samples = 0 an iteration leaves the loop condition as it found
\* it: once in the loop, the call never returns.
ZeroHopLoopStays ==
    [][(pc = "loop" /\ hop_samples = 0
        /\ start + window_samples <= Len(waveform))
       => (pc' = "loop" /\ start' + window_samples' <= Len(waveform'))]_vars

\* the windower law applied to a sequence of n-sample windows and hop h
\* given directly in samples (one second holds TimeScale ticks)
WindowerLaw(w, n, h) == create_fixed_windows(w, TimeScale, n, h)

\* C22: for positive win_f and hop_f, chop_windows returns the windows the
\* windower law gives for the same length, window and hop (same number,
\* same offsets), and never returns zero windows.
C22_ChopEqualsWindower ==
    (pc = "chopped" /\ win_f > 0 /\ hop_f > 0) =>
        /\ Len(chunks) >= 1
        /\ chunks = WindowerLaw(mel, win_f, hop_f)

\* What chop_windows does return: the fully contained tiles only, each
\* win_f frames long, none when the map is shorter than one window.
ChopIsTilesOnly ==
    (pc = "chopped" /\ win_f > 0 /\ hop_f > 0) =>
        /\ chunks = TiledFrom(mel, 0, win_f, hop_f)
        /\ \A k \in 1..Len(chunks) : Len(chunks[k]) = win_f
        /\ (Len(mel) < win_f => chunks = <<>>)

\* the number of times x occurs in the list s
Occurrences(s, x) == Cardinality({i \in 1..Len(s) : s[i] = x})

\* the recording ids found by the scan
ScannedIds ==
    UNION {{species_recordings[sp][i] : i \in 1..Len(species_recordings[sp])} :
              sp \in DOMAIN species_recordings}

\* C23: every recording id of a species folder already split is in exactly
\* one of train_ids, val_ids and test_ids, exactly once; the written lists
\* are pairwise disjoint and together hold every scanned id exactly once.
C23_SplitsPartitionRecordings ==
    /\ \A k \in 1..split_pos :
          LET found == species_recordings[SortedSpecies[k]]
          IN  \A i \in 1..Len(found) :
                  Occurrences(train_ids \o val_ids \o test_ids, found[i]) = 1
    /\ pc = "written" =>
          /\ \A x \in ScannedIds :
                 Occurrences(train_ids, x) + Occurrences(val_ids, x)
                     + Occurrences(test_ids, x) = 1
          /\ Len(train_ids) + Len(val_ids) + Len(test_ids)
                 = Cardinality(ScannedIds)

\* a folder large enough to give all three lists a recording, next to a
\* second folder
C23_Witness ==
    /\ pc = "written"
    /\ train_ids # <<>> /\ val_ids # <<>> /\ test_ids # <<>>
    /\ \A sp \in DOMAIN species_recordings : Len(species_recordings[sp]) >= 1
    /\ species_recordings[1] # SortedList(species_recordings[1])

\* the sample positions (1-based) held by the windows the index addresses:
\* those of ordinal below the estimated count
IndexedPositions ==
    LET n == num_windows(duration_s, sample_rate, window_seconds, hop_seconds)
    IN  UNION {{windows[o][j] : j \in 1..Len(windows[o])} :
                  o \in {k \in 1..Len(windows) : k - 1 < n}}

\* C24: for a tiled clip with 0 < hop_samples <= window_samples, every
\* sample position of the waveform lies in a window whose ordinal is below
\* the estimated count.
C24_IndexedWindowsCoverClip ==
    (Returned /\ Tiled /\ hop_samples > 0 /\ hop_samples <= window_samples) =>
        \A pos \in 1..Len(waveform) : waveform[pos] \in IndexedPositions

\* the tiles stop short of the end and the closing window, which the index
\* addresses, holds the last samples
C24_Witness ==
    /\ Returned /\ Tiled
    /\ hop_samples > 1 /\ hop_samples < window_samples
    /\ (Len(waveform) - window_samples) % hop_samples # 0
    /\ Len(windows) = num_windows(duration_s, sample_rate, window_seconds,
                                  hop_seconds)
    /\ windows[Len(windows)][window_samples] = Len(waveform)
    /\ windows[Len(windows) - 1][window_samples] < Len(waveform)

====
